---- MODULE Spec2Model ----
(***************************************************************************)
(* CodeSystemExporter (src/unnamed/part_000): export() walks the tank's    *)
(* code systems; exportCodeSystem builds one CodeSystem document from an   *)
(* entity's rules (root caret rules, then concept rules, then code caret   *)
(* rules), reconciles its count and pushes it to the package.              *)
(***************************************************************************)
EXTENDS Integers, Sequences, FiniteSets, TLC

VARIABLES
  tank,        \* this.tank.getAllCodeSystems(): the FshCodeSystem entities
  fisher,      \* whether fishForFHIR('CodeSystem', Type.Resource) finds the schema
  pkg,         \* this.pkg.codeSystems
  logger,      \* the diagnostics logged so far, oldest first
  pc,          \* the statement export() / exportCodeSystem is at
  cur,         \* index in tank of the entity the for loop of export() is at
  codeSystem,  \* the CodeSystem under construction (Undef outside a call)
  k,           \* position in the rule list of the running set* loop
  applied,     \* history: source indices of this entity's rules, as applied
  outcome,     \* history: how the exportCodeSystem call of each entity ended
  origin       \* history: for each document of pkg, the entity it came from
               \* (0: it was in the package before export() ran)

vars == <<tank, fisher, pkg, logger, pc, cur, codeSystem, k, applied, outcome, origin>>

(* ------------------------------ bounds --------------------------------- *)

MaxEntities == 2   \* entities in a tank of the package family
MaxConcepts == 3   \* concept rules in an entity of the forest family
MaxMixed == 3      \* rules in an entity of the mixed family
MaxCount == 2      \* largest ^count value a rule assigns

(* --------------------------- JS objects -------------------------------- *)

\* An object is a record; an absent property is a field outside its DOMAIN.
Undef == <<>>
Has(obj, f) == f \in DOMAIN obj
Put(obj, f, v) == [x \in (DOMAIN obj) \cup {f} |-> IF x = f THEN v ELSE obj[x]]
Null == [null |-> TRUE]

\* Array.prototype.findIndex / find by code, 1-based; 0 when there is none.
IndexOfCode(list, code) ==
  IF \E j \in 1..Len(list) : list[j].code = code
  THEN CHOOSE j \in 1..Len(list) :
         /\ list[j].code = code
         /\ \A h \in 1..(j - 1) : list[h].code # code
  ELSE 0

(* ------------------------------ rules ---------------------------------- *)

\* A path is a sequence of segments; a segment's index is absent, a literal
\* integer, or a soft marker ("append" is [+], "same" is [=]).
NoIdx == [tag |-> "none"]
Lit(n) == [tag |-> "lit", n |-> n]
Plus == [tag |-> "append"]
Same == [tag |-> "same"]
Seg(name, idx) == [base |-> name, idx |-> idx]
Field(name) == <<Seg(name, NoIdx)>>

\* A rule's value: a string, a number or a code (#complete).
Str(s) == [t |-> "string", s |-> s]
Num(n) == [t |-> "int", n |-> n]
Code(c) == [t |-> "code", s |-> c]

CaretValueRule(path, value) == [kind |-> "caret", caretPath |-> path, value |-> value]
ConceptRule(code, hierarchy) == [kind |-> "concept", code |-> code, hierarchy |-> hierarchy]
CodeCaretValueRule(codePath, path, value) ==
  [kind |-> "codecaret", codePath |-> codePath, caretPath |-> path, value |-> value]

\* Variant of FilterRules that collects the matching rules last first.
RECURSIVE FilterReversedFrom(_, _, _)
FilterReversedFrom(rules, kind, j) ==
  IF j > Len(rules) THEN <<>>
  ELSE FilterReversedFrom(rules, kind, j + 1)
       \o (IF rules[j].kind = kind THEN <<j>> ELSE <<>>)
FilterRulesReversed(rules, kind) == FilterReversedFrom(rules, kind, 1)

\* fshDefinition.rules.filter(rule => rule instanceof K), as source indices.
RECURSIVE FilterFrom(_, _, _)
FilterFrom(rules, kind, j) ==
  IF j > Len(rules) THEN <<>>
  ELSE (IF rules[j].kind = kind THEN <<j>> ELSE <<>>) \o FilterFrom(rules, kind, j + 1)
FilterRules(rules, kind) == FilterFrom(rules, kind, 1)

(* ---------------- schema lookup, path resolution, mutation -------------- *)

\* The CodeSystem StructureDefinition: the type each element path permits.
\* A path below concept[i] (nested to any depth) is a concept element.
RootTypes ==
  (<<"name">> :> "string") @@ (<<"id">> :> "string") @@ (<<"version">> :> "string")
  @@ (<<"title">> :> "string") @@ (<<"content">> :> "code") @@ (<<"count">> :> "int")
  @@ (<<"identifier", "value">> :> "string")
ConceptTypes ==
  (<<"display">> :> "string") @@ (<<"definition">> :> "string")
  @@ (<<"designation", "value">> :> "string")

RECURSIVE StripConcept(_)
StripConcept(names) ==
  IF names # <<>> /\ Head(names) = "concept" THEN StripConcept(Tail(names)) ELSE names

ElementType(names) ==
  LET rest == StripConcept(names)
      types == IF Len(rest) = Len(names) THEN RootTypes ELSE ConceptTypes
  IN  IF rest \in DOMAIN types THEN types[rest] ELSE "none"

\* csStructureDefinition.validateValueAtPath(path, value, fisher): the resolved
\* path parts and the value to assign, or the error it throws.  It reads the
\* schema only; the document is not among its arguments.
validateValueAtPath(path, value) ==
  LET names == [j \in 1..Len(path) |-> path[j].base]
      type == ElementType(names)
  IN  IF \/ type = "none"
         \/ \E j \in 1..Len(path) : path[j].idx.tag \notin {"none", "lit"}
      THEN [ok |-> FALSE, error |-> "CannotResolvePath"]
      ELSE IF value.t # type
      THEN [ok |-> FALSE, error |-> "MismatchedType"]
      ELSE [ok |-> TRUE, pathParts |-> path,
            assignedValue |-> IF value.t = "int" THEN value.n ELSE value.s]

\* setPropertyOnInstance(instance, pathParts, assignedValue, fisher): walk the
\* path from the root, creating missing objects and array slots, set the value.
RECURSIVE setPropertyOnInstance(_, _, _)
setPropertyOnInstance(instance, pathParts, assignedValue) ==
  LET part == Head(pathParts)
      rest == Tail(pathParts)
  IN  IF part.idx.tag # "lit"
      THEN IF rest = <<>>
           THEN Put(instance, part.base, assignedValue)
           ELSE Put(instance, part.base,
                    setPropertyOnInstance(
                      IF Has(instance, part.base) THEN instance[part.base] ELSE Undef,
                      rest, assignedValue))
      ELSE LET old == IF Has(instance, part.base) THEN instance[part.base] ELSE <<>>
               pos == part.idx.n + 1
               arr == [j \in 1..(IF pos > Len(old) THEN pos ELSE Len(old)) |->
                         IF j <= Len(old) THEN old[j] ELSE Null]
               slot == IF arr[pos] = Null THEN Undef ELSE arr[pos]
           IN  Put(instance, part.base,
                   [arr EXCEPT ![pos] =
                      IF rest = <<>> THEN assignedValue
                      ELSE setPropertyOnInstance(slot, rest, assignedValue)])

\* resolveSoftIndexing(rules): replace [+] by the last index used at the same
\* path prefix plus one (0 at first use) and [=] by the last index used there.
\* `last` maps a prefix (resolved segments so far, field name) to that index.
RECURSIVE resolvePath(_, _, _)
resolvePath(rest, done, last) ==
  IF rest = <<>> THEN [path |-> done, last |-> last]
  ELSE LET s == Head(rest)
           prefix == <<done, s.base>>
           seen == prefix \in DOMAIN last
       IN  IF s.idx.tag = "append"
           THEN LET n == IF seen THEN last[prefix] + 1 ELSE 0
                IN  resolvePath(Tail(rest), Append(done, Seg(s.base, Lit(n))),
                                Put(last, prefix, n))
           ELSE IF s.idx.tag = "same" /\ seen
           THEN resolvePath(Tail(rest), Append(done, Seg(s.base, Lit(last[prefix]))), last)
           ELSE IF s.idx.tag = "lit"
           THEN resolvePath(Tail(rest), Append(done, s), Put(last, prefix, s.idx.n))
           ELSE resolvePath(Tail(rest), Append(done, s), last)

RECURSIVE resolveFrom(_, _, _, _)
resolveFrom(rules, idxs, j, last) ==
  IF j > Len(idxs) THEN rules
  ELSE LET r == resolvePath(rules[idxs[j]].caretPath, <<>>, last)
       IN  resolveFrom([rules EXCEPT ![idxs[j]].caretPath = r.path], idxs, j + 1, r.last)

\* The entity's rule list after resolveSoftIndexing ran on the rules at idxs
\* (the rule objects are shared with fshDefinition.rules and rewritten in place).
resolveSoftIndexing(rules, idxs) == resolveFrom(rules, idxs, 1, <<>>)

(* ------------------------------ config --------------------------------- *)

ConfigVersion == "1.0.0"                 \* this.tank.config.version
ConfigCanonical == "http://example.org"   \* this.tank.config.canonical

\* A diagnostic: its level, what it reports, the entity and the rule's source
\* index it is located at (0: the entity's own sourceInfo).
Diag(level, what, ent, rule) == [level |-> level, what |-> what, ent |-> ent, rule |-> rule]

(* --------------------------- the exporter ------------------------------ *)

\* new CodeSystem(): content defaults to 'complete', status to 'active'.
newCodeSystem == [status |-> "active", content |-> "complete"]

\* setMetadata (lines 18-26)
setMetadata(cs, fshDefinition) ==
  LET named == Put(Put(cs, "name", fshDefinition.name), "id", fshDefinition.id)
      titled == IF Has(fshDefinition, "title") /\ fshDefinition.title # ""
                THEN Put(named, "title", fshDefinition.title) ELSE named
      described == IF Has(fshDefinition, "description") /\ fshDefinition.description # ""
                   THEN Put(titled, "description", fshDefinition.description) ELSE titled
      versioned == Put(described, "version", ConfigVersion)
  IN  Put(versioned, "url", <<ConfigCanonical, "CodeSystem", versioned.id>>)

\* The new node of a concept rule (lines 33-39).
newConcept(concept) ==
  LET coded == [code |-> concept.code]
      shown == IF Has(concept, "display") /\ concept.display # ""
               THEN Put(coded, "display", concept.display) ELSE coded
  IN  IF Has(concept, "definition") /\ concept.definition # ""
      THEN Put(shown, "definition", concept.definition) ELSE shown

\* Variant of insertConcept without the return of line 54: the new node is
\* pushed where the walk stopped.
RECURSIVE insertConceptNoReturn(_, _, _)
insertConceptNoReturn(conceptContainer, hierarchy, node) ==
  IF hierarchy = <<>>
  THEN [ok |-> TRUE, list |-> Append(conceptContainer, node)]
  ELSE LET at == IndexOfCode(conceptContainer, Head(hierarchy))
       IN  IF at = 0
           THEN [ok |-> FALSE, list |-> Append(conceptContainer, node),
                 missing |-> Head(hierarchy)]
           ELSE LET ancestorConcept == conceptContainer[at]
                    below == insertConceptNoReturn(
                               IF Has(ancestorConcept, "concept")
                               THEN ancestorConcept.concept ELSE <<>>,
                               Tail(hierarchy), node)
                IN  [below EXCEPT !.list =
                       [conceptContainer EXCEPT ![at] =
                          Put(ancestorConcept, "concept", below.list)]]

\* Variant of insertConcept with unshift for the push of line 57.
RECURSIVE insertConceptUnshift(_, _, _)
insertConceptUnshift(conceptContainer, hierarchy, node) ==
  IF hierarchy = <<>>
  THEN [ok |-> TRUE, list |-> <<node>> \o conceptContainer]
  ELSE LET at == IndexOfCode(conceptContainer, Head(hierarchy))
       IN  IF at = 0
           THEN [ok |-> FALSE, list |-> conceptContainer, missing |-> Head(hierarchy)]
           ELSE LET ancestorConcept == conceptContainer[at]
                    below == insertConceptUnshift(
                               IF Has(ancestorConcept, "concept")
                               THEN ancestorConcept.concept ELSE <<>>,
                               Tail(hierarchy), node)
                IN  [below EXCEPT !.list =
                       [conceptContainer EXCEPT ![at] =
                          Put(ancestorConcept, "concept", below.list)]]

\* The walk of lines 40-57 from conceptContainer down the remaining ancestor
\* codes: the container as it is afterwards, and the ancestor that was missing.
\* An ancestor that is found and has no child list is given an empty one
\* (lines 45-47) before the walk goes on.
RECURSIVE insertConcept(_, _, _)
insertConcept(conceptContainer, hierarchy, node) ==
  IF hierarchy = <<>>
  THEN [ok |-> TRUE, list |-> Append(conceptContainer, node)]
  ELSE LET at == IndexOfCode(conceptContainer, Head(hierarchy))
       IN  IF at = 0
           THEN [ok |-> FALSE, list |-> conceptContainer, missing |-> Head(hierarchy)]
           ELSE LET ancestorConcept == conceptContainer[at]
                    below == insertConcept(
                               IF Has(ancestorConcept, "concept")
                               THEN ancestorConcept.concept ELSE <<>>,
                               Tail(hierarchy), node)
                IN  [below EXCEPT !.list =
                       [conceptContainer EXCEPT ![at] =
                          Put(ancestorConcept, "concept", below.list)]]

\* One iteration of the forEach of setConcepts (lines 31-58).
setConcept(cs, concept, ent, src) ==
  LET r == insertConcept(cs.concept, concept.hierarchy, newConcept(concept))
  IN  [cs |-> [cs EXCEPT !.concept = r.list],
       log |-> IF r.ok THEN <<>> ELSE <<Diag("error", "MissingAncestor", ent, src)>>]

\* Variant of findIndices that takes the last node with the code (findLastIndex).
RECURSIVE findLastIndices(_, _)
findLastIndices(conceptList, codePath) ==
  IF codePath = <<>> THEN [ok |-> TRUE, indices |-> <<>>]
  ELSE LET hits == {j \in 1..Len(conceptList) : conceptList[j].code = Head(codePath)}
       IN  IF hits = {} THEN [ok |-> FALSE, indices |-> <<>>]
           ELSE LET at == CHOOSE j \in hits : \A h \in hits : h <= j
                    node == conceptList[at]
                    below == findLastIndices(
                               IF Has(node, "concept") THEN node.concept ELSE <<>>,
                               Tail(codePath))
                IN  [ok |-> below.ok, indices |-> <<at - 1>> \o below.indices]

\* Variant of findIndices without the descent of line 111: every code is
\* looked up among the roots.
RECURSIVE findIndicesShallow(_, _)
findIndicesShallow(conceptList, codePath) ==
  IF codePath = <<>> THEN [ok |-> TRUE, indices |-> <<>>]
  ELSE LET stepIndex == IndexOfCode(conceptList, Head(codePath)) - 1
       IN  IF stepIndex = -1 THEN [ok |-> FALSE, indices |-> <<>>]
           ELSE LET below == findIndicesShallow(conceptList, Tail(codePath))
                IN  [ok |-> below.ok, indices |-> <<stepIndex>> \o below.indices]

\* findConceptPath (lines 102-114): the indices, or the throw.
RECURSIVE findIndices(_, _)
findIndices(conceptList, codePath) ==
  IF codePath = <<>> THEN [ok |-> TRUE, indices |-> <<>>]
  ELSE LET stepIndex == IndexOfCode(conceptList, Head(codePath)) - 1
       IN  IF stepIndex = -1 THEN [ok |-> FALSE, indices |-> <<>>]
           ELSE LET node == conceptList[stepIndex + 1]
                    below == findIndices(IF Has(node, "concept") THEN node.concept ELSE <<>>,
                                         Tail(codePath))
                IN  [ok |-> below.ok, indices |-> <<stepIndex>> \o below.indices]

findConceptPath(cs, codePath) ==
  LET r == findIndices(IF Has(cs, "concept") THEN cs.concept ELSE <<>>, codePath)
  IN  IF r.ok
      THEN [ok |-> TRUE,
            path |-> [j \in 1..Len(r.indices) |-> Seg("concept", Lit(r.indices[j]))]]
      ELSE [ok |-> FALSE, error |-> "CannotResolvePath"]

\* Variant of countConcepts that counts the top level only.
countConceptsShallow(owner) == IF Has(owner, "concept") THEN Len(owner.concept) ELSE 0

\* countConcepts (lines 116-127), of the concept list of `owner` (undefined
\* when owner has none).
RECURSIVE countConcepts(_)
RECURSIVE sumCounts(_, _)
sumCounts(concepts, j) ==
  IF j > Len(concepts) THEN 0 ELSE countConcepts(concepts[j]) + sumCounts(concepts, j + 1)
countConcepts(owner) ==
  IF Has(owner, "concept") THEN Len(owner.concept) + sumCounts(owner.concept, 1) ELSE 0

\* Variant of setCaretRule that assigns before it validates.
setCaretRuleUnvalidated(cs, rule, ent, src) ==
  LET v == validateValueAtPath(rule.caretPath, rule.value)
      set == setPropertyOnInstance(cs, rule.caretPath,
                                   IF rule.value.t = "int" THEN rule.value.n ELSE rule.value.s)
  IN  [cs |-> set, log |-> IF v.ok THEN <<>> ELSE <<Diag("error", v.error, ent, src)>>]

\* One iteration of the loop of setCaretRules (lines 68-79).
setCaretRule(cs, rule, ent, src) ==
  LET v == validateValueAtPath(rule.caretPath, rule.value)
  IN  IF v.ok
      THEN [cs |-> setPropertyOnInstance(cs, v.pathParts, v.assignedValue), log |-> <<>>]
      ELSE [cs |-> cs, log |-> <<Diag("error", v.error, ent, src)>>]

\* One iteration of the loop of setCodeCaretRules (lines 87-99).
setCodeCaretRule(cs, rule, ent, src) ==
  LET conceptPath == findConceptPath(cs, rule.codePath)
      v == validateValueAtPath(conceptPath.path \o rule.caretPath, rule.value)
  IN  IF ~conceptPath.ok
      THEN [cs |-> cs, log |-> <<Diag("error", conceptPath.error, ent, src)>>]
      ELSE IF v.ok
      THEN [cs |-> setPropertyOnInstance(cs, v.pathParts, v.assignedValue), log |-> <<>>]
      ELSE [cs |-> cs, log |-> <<Diag("error", v.error, ent, src)>>]

\* Variant of updateCount that also writes the computed count over an explicit
\* count that disagrees with it.
updateCountOverwrites(cs, fshDefinition, ent) ==
  IF Has(cs, "content") /\ cs.content = "complete"
  THEN LET n == countConcepts(cs)
           same == IF Has(cs, "count") THEN n # 0 /\ cs.count = n ELSE n = 0
       IN  IF same THEN [cs |-> cs, log |-> <<>>]
           ELSE [cs |-> Put(cs, "count", n),
                 log |-> IF Has(cs, "count")
                         THEN <<Diag("warn", "CountMismatch", ent, 0)>> ELSE <<>>]
  ELSE [cs |-> cs, log |-> <<>>]

\* Variant of updateCount without the test of line 131: it reconciles the count
\* whatever the content.
updateCountAnyContent(cs, fshDefinition, ent) ==
  LET n == countConcepts(cs)
      actualDefined == n # 0
      same == IF Has(cs, "count") THEN actualDefined /\ cs.count = n
              ELSE ~actualDefined
  IN  IF ~Has(cs, "count") /\ actualDefined
      THEN [cs |-> Put(cs, "count", n), log |-> <<>>]
      ELSE IF ~same
      THEN [cs |-> cs, log |-> <<Diag("warn", "CountMismatch", ent, 0)>>]
      ELSE [cs |-> cs, log |-> <<>>]

\* updateCount (lines 129-150).  actualCount is undefined when no concept is
\* counted (0 || undefined).
updateCount(cs, fshDefinition, ent) ==
  IF Has(cs, "content") /\ cs.content = "complete"
  THEN LET n == countConcepts(cs)
           actualDefined == n # 0
           same == IF Has(cs, "count") THEN actualDefined /\ cs.count = n
                   ELSE ~actualDefined
           countRules == {j \in 1..Len(fshDefinition.rules) :
                            /\ fshDefinition.rules[j].kind = "caret"
                            /\ fshDefinition.rules[j].caretPath = Field("count")}
           src == IF countRules = {} THEN 0
                  ELSE CHOOSE j \in countRules : \A h \in countRules : j <= h
       IN  IF ~Has(cs, "count") /\ actualDefined
           THEN [cs |-> Put(cs, "count", n), log |-> <<>>]
           ELSE IF ~same
           THEN [cs |-> cs, log |-> <<Diag("warn", "CountMismatch", ent, src)>>]
           ELSE [cs |-> cs, log |-> <<>>]
  ELSE [cs |-> cs, log |-> <<>>]

(* ------------------------------ inputs --------------------------------- *)

Names == {"N1", "N2"}
Ids == {"x", "y"}
Codes == {"a", "b"}

SeqsUpTo(S, n) == UNION {[1..m -> S] : m \in 0..n}

Entity(name, id, rules) == [name |-> name, id |-> id, rules |-> rules]

\* Forest family: one entity of concept rules, hierarchies up to two ancestors.
Hierarchies == {<<>>} \cup {<<c>> : c \in Codes} \cup {<<"a", c>> : c \in Codes}
ForestRules == {ConceptRule(c, h) : c \in Codes, h \in Hierarchies}
ForestTanks == {<<Entity("N1", "x", r)>> : r \in SeqsUpTo(ForestRules, MaxConcepts)}

\* Count family: ^content / ^count rules in front of a small forest.
CountPrefixes ==
  {<<CaretValueRule(Field("count"), Num(n))>> : n \in 0..MaxCount}
  \cup {<<CaretValueRule(Field("content"), Code("example"))>>}
  \cup {<<CaretValueRule(Field("content"), Code("example")),
          CaretValueRule(Field("count"), Num(n))>> : n \in 0..MaxCount}
CountForests ==
  SeqsUpTo({ConceptRule("a", <<>>), ConceptRule("b", <<"a">>), ConceptRule("b", <<"b">>),
            Put(Put(ConceptRule("b", <<>>), "display", "B"), "definition", "the b")},
           MaxConcepts)
CountTanks == {<<Entity("N1", "x", p \o f)>> : p \in CountPrefixes, f \in CountForests}

\* Mixed family: rules of the three kinds in any source order, failing rules
\* and soft indices among them.
MixedRules ==
  { CaretValueRule(Field("bogus"), Str("v")),
    CaretValueRule(Field("count"), Str("v")),
    CaretValueRule(<<Seg("identifier", Plus), Seg("value", NoIdx)>>, Str("v")),
    ConceptRule("a", <<>>),
    ConceptRule("b", <<"a">>),
    CodeCaretValueRule(<<"a">>, Field("display"), Str("D")),
    CodeCaretValueRule(<<"b">>, Field("display"), Str("D")),
    CodeCaretValueRule(<<"a">>, Field("display"), Num(1)),
    CodeCaretValueRule(<<"a">>, Field("bogus"), Str("v")),
    CodeCaretValueRule(<<"a">>, <<Seg("designation", Plus), Seg("value", NoIdx)>>, Str("v")) }
MixedTanks == {<<Entity("N1", "x", r)>> : r \in SeqsUpTo(MixedRules, MaxMixed)}

\* Package family: several entities, names and ids shared or reassigned.
PackageRuleLists ==
  { <<>>,
    <<CaretValueRule(Field("name"), Str("N2"))>>,
    <<CaretValueRule(Field("id"), Str("y"))>> }
PackageEntities ==
  {Entity(n, i, r) : n \in Names, i \in Ids, r \in PackageRuleLists}
  \cup {Put(Entity("N2", "y", <<>>), "title", "Title")}
PackageTanks == SeqsUpTo(PackageEntities, MaxEntities)

\* Code caret family: a small forest, then one code caret rule down any path.
CodePaths == {<<c>> : c \in Codes} \cup {<<c, d>> : c \in Codes, d \in Codes}
CodeCaretForests ==
  SeqsUpTo({ConceptRule("a", <<>>), ConceptRule("b", <<>>), ConceptRule("b", <<"a">>),
            ConceptRule("a", <<"a">>), ConceptRule("a", <<"a", "b">>)}, MaxConcepts)
CodeCaretTanks ==
  {<<Entity("N1", "x", f \o <<CodeCaretValueRule(p, Field("display"), Str("D"))>>)>> :
     f \in CodeCaretForests, p \in CodePaths}

\* Metadata family: one entity whose rules reassign what setMetadata set.
MetadataRules ==
  { CaretValueRule(Field("version"), Str("2.0.0")),
    CaretValueRule(Field("id"), Str("y")),
    CaretValueRule(Field("title"), Str("Title")) }
MetadataTanks ==
  {<<Put(Entity("N1", "x", r), "description", "Description")>> :
     r \in [1..1 -> MetadataRules] \cup [1..2 -> MetadataRules]}

SingleTanks == ForestTanks \cup CountTanks \cup MixedTanks \cup CodeCaretTanks \cup MetadataTanks

\* The package is empty, or an earlier run already pushed a code system to it.
Exported(name, id) == setMetadata(newCodeSystem, Entity(name, id, <<>>))
InitialPackages == {<<>>, <<Exported("N2", "y")>>}

(* ------------------------------ actions -------------------------------- *)

fshDefinition == tank[cur]
caretRules == FilterRules(fshDefinition.rules, "caret")
conceptRules == FilterRules(fshDefinition.rules, "concept")
codeCaretRules == FilterRules(fshDefinition.rules, "codecaret")

\* The single-entity families run with the schema found and an empty package;
\* the package family also runs with the lookup failing and a package in use.
Init ==
  /\ \/ tank \in SingleTanks /\ fisher = TRUE /\ pkg = <<>>
     \/ tank \in PackageTanks /\ fisher \in BOOLEAN /\ pkg \in InitialPackages
  /\ logger = <<>>
  /\ pc = "export"
  /\ cur = 1
  /\ codeSystem = Undef
  /\ k = 0
  /\ applied = <<>>
  /\ outcome = <<>>
  /\ origin = [j \in 1..Len(pkg) |-> 0]

\* exportCodeSystem, lines 153-155: a code system of that name is in the package.
exportSkips ==
  /\ pc = "export" /\ cur <= Len(tank)
  /\ \E j \in 1..Len(pkg) : pkg[j].name = fshDefinition.name
  /\ cur' = cur + 1
  /\ outcome' = Append(outcome, "skipped")
  /\ UNCHANGED <<tank, fisher, pkg, logger, pc, codeSystem, k, applied, origin>>

\* exportCodeSystem, lines 153-159.  applyInsertRules finds nothing to expand:
\* the tank's rule lists hold no insert rules.
exportBegins ==
  /\ pc = "export" /\ cur <= Len(tank)
  /\ ~\E j \in 1..Len(pkg) : pkg[j].name = fshDefinition.name
  /\ codeSystem' = setMetadata(newCodeSystem, fshDefinition)
  /\ applied' = <<>>
  /\ pc' = "fish"
  /\ UNCHANGED <<tank, fisher, pkg, logger, cur, k, outcome, origin>>

\* Variant of fishThrows without the try/catch of export(): the throw ends the run.
fishThrowsUncaught ==
  /\ pc = "fish" /\ ~fisher
  /\ codeSystem' = Undef
  /\ outcome' = Append(outcome, "failed")
  /\ pc' = "done"
  /\ UNCHANGED <<tank, fisher, pkg, logger, cur, k, applied, origin>>

\* Lines 160-162 throw; the catch of export() (lines 197-199) logs and the loop
\* goes on.
fishThrows ==
  /\ pc = "fish" /\ ~fisher
  /\ logger' = Append(logger, Diag("error", "Thrown", cur, 0))
  /\ codeSystem' = Undef
  /\ cur' = cur + 1
  /\ outcome' = Append(outcome, "failed")
  /\ pc' = "export"
  /\ UNCHANGED <<tank, fisher, pkg, k, applied, origin>>

\* Lines 160-162 return the StructureDefinition.
fishFinds ==
  /\ pc = "fish" /\ fisher
  /\ pc' = "setCaretRules"
  /\ UNCHANGED <<tank, fisher, pkg, logger, cur, codeSystem, k, applied, outcome, origin>>

\* Variant of afterCaretRules that leaves out setConcepts and setCodeCaretRules.
afterCaretRulesSkipsConcepts == "checkId"

afterCaretRules == "setConcepts"
afterConcepts == IF codeCaretRules = <<>> THEN "checkId" ELSE "codeCaretRule"

\* setCaretRules, line 67.
softIndexing ==
  /\ pc = "setCaretRules"
  /\ tank' = [tank EXCEPT ![cur].rules = resolveSoftIndexing(fshDefinition.rules, caretRules)]
  /\ k' = 1
  /\ pc' = IF caretRules = <<>> THEN afterCaretRules ELSE "caretRule"
  /\ UNCHANGED <<fisher, pkg, logger, cur, codeSystem, applied, outcome, origin>>

\* Variant of caretRuleStep without the try/catch of lines 69-78: a failing
\* rule's throw leaves exportCodeSystem and is caught by export().
caretRuleStepRethrows ==
  /\ pc = "caretRule"
  /\ LET src == caretRules[k]
         r == setCaretRule(codeSystem, fshDefinition.rules[src], cur, src)
     IN  IF r.log = <<>>
         THEN /\ codeSystem' = r.cs
              /\ logger' = logger
              /\ applied' = Append(applied, src)
              /\ k' = k + 1
              /\ pc' = IF k = Len(caretRules) THEN afterCaretRules ELSE pc
              /\ UNCHANGED <<cur, outcome>>
         ELSE /\ codeSystem' = Undef
              /\ logger' = Append(logger, Diag("error", "Thrown", cur, 0))
              /\ applied' = Append(applied, src)
              /\ k' = k
              /\ pc' = "export"
              /\ cur' = cur + 1
              /\ outcome' = Append(outcome, "failed")
  /\ UNCHANGED <<tank, fisher, pkg, origin>>

\* setCaretRules, one turn of the loop of lines 68-79.
caretRuleStep ==
  /\ pc = "caretRule"
  /\ LET src == caretRules[k]
         r == setCaretRule(codeSystem, fshDefinition.rules[src], cur, src)
     IN  /\ codeSystem' = r.cs
         /\ logger' = logger \o r.log
         /\ applied' = Append(applied, src)
  /\ k' = k + 1
  /\ pc' = IF k = Len(caretRules) THEN afterCaretRules ELSE pc
  /\ UNCHANGED <<tank, fisher, pkg, cur, outcome, origin>>

\* setConcepts, lines 29-30.
setConcepts ==
  /\ pc = "setConcepts"
  /\ IF conceptRules # <<>>
     THEN /\ codeSystem' = Put(codeSystem, "concept", <<>>)
          /\ pc' = "conceptRule"
     ELSE /\ codeSystem' = codeSystem
          /\ pc' = afterConcepts
  /\ k' = 1
  /\ UNCHANGED <<tank, fisher, pkg, logger, cur, applied, outcome, origin>>

\* setConcepts, one turn of the forEach of lines 31-58.
conceptRuleStep ==
  /\ pc = "conceptRule"
  /\ LET src == conceptRules[k]
         r == setConcept(codeSystem, fshDefinition.rules[src], cur, src)
     IN  /\ codeSystem' = r.cs
         /\ logger' = logger \o r.log
         /\ applied' = Append(applied, src)
  /\ k' = IF k = Len(conceptRules) THEN 1 ELSE k + 1
  /\ pc' = IF k = Len(conceptRules) THEN afterConcepts ELSE pc
  /\ UNCHANGED <<tank, fisher, pkg, cur, outcome, origin>>

\* setCodeCaretRules, one turn of the loop of lines 87-99.
codeCaretRuleStep ==
  /\ pc = "codeCaretRule"
  /\ LET src == codeCaretRules[k]
         r == setCodeCaretRule(codeSystem, fshDefinition.rules[src], cur, src)
     IN  /\ codeSystem' = r.cs
         /\ logger' = logger \o r.log
         /\ applied' = Append(applied, src)
  /\ k' = k + 1
  /\ pc' = IF k = Len(codeCaretRules) THEN "checkId" ELSE pc
  /\ UNCHANGED <<tank, fisher, pkg, cur, outcome, origin>>

\* Variant of the test of line 180 that compares names, as line 153 does.
duplicateName(package, cs) == \E j \in 1..Len(package) : cs.name = package[j].name

\* Lines 180-185.
duplicateId(package, cs) == \E j \in 1..Len(package) : cs.id = package[j].id
checkId ==
  /\ pc = "checkId"
  /\ logger' = IF duplicateId(pkg, codeSystem)
               THEN Append(logger, Diag("error", "DuplicateId", cur, 0))
               ELSE logger
  /\ pc' = "updateCount"
  /\ UNCHANGED <<tank, fisher, pkg, cur, codeSystem, k, applied, outcome, origin>>

\* Line 187.
updateCountStep ==
  /\ pc = "updateCount"
  /\ LET r == updateCount(codeSystem, fshDefinition, cur)
     IN  /\ codeSystem' = r.cs
         /\ logger' = logger \o r.log
  /\ pc' = "push"
  /\ UNCHANGED <<tank, fisher, pkg, cur, k, applied, outcome, origin>>

\* Variant of push with unshift for the push of line 188.
pushUnshift ==
  /\ pc = "push"
  /\ pkg' = <<codeSystem>> \o pkg
  /\ codeSystem' = Undef
  /\ cur' = cur + 1
  /\ outcome' = Append(outcome, "exported")
  /\ origin' = <<cur>> \o origin
  /\ pc' = "export"
  /\ UNCHANGED <<tank, fisher, logger, k, applied>>

\* Lines 188-189, and back to the loop of export().
push ==
  /\ pc = "push"
  /\ pkg' = Append(pkg, codeSystem)
  /\ codeSystem' = Undef
  /\ cur' = cur + 1
  /\ outcome' = Append(outcome, "exported")
  /\ origin' = Append(origin, cur)
  /\ pc' = "export"
  /\ UNCHANGED <<tank, fisher, logger, k, applied>>

\* Variant of exportReturns whose loop bound is off by one: the loop may end
\* before the last entity.
exportReturnsEarly ==
  /\ pc = "export" /\ cur >= Len(tank)
  /\ logger' = IF Len(tank) > 0 THEN Append(logger, Diag("info", "Converted", 0, 0))
               ELSE logger
  /\ pc' = "done"
  /\ UNCHANGED <<tank, fisher, pkg, cur, codeSystem, k, applied, outcome, origin>>

\* export(), lines 201-204: the loop is over.
exportReturns ==
  /\ pc = "export" /\ cur > Len(tank)
  /\ logger' = IF Len(tank) > 0 THEN Append(logger, Diag("info", "Converted", 0, 0))
               ELSE logger
  /\ pc' = "done"
  /\ UNCHANGED <<tank, fisher, pkg, cur, codeSystem, k, applied, outcome, origin>>

Next ==
  \/ exportSkips
  \/ exportBegins
  \/ fishThrows
  \/ fishFinds
  \/ softIndexing
  \/ caretRuleStep
  \/ setConcepts
  \/ conceptRuleStep
  \/ codeCaretRuleStep
  \/ checkId
  \/ updateCountStep
  \/ push
  \/ exportReturns

Spec == Init /\ [][Next]_vars

\* export() is one synchronous call: a statement that can run does run.  This
\* is weak fairness of Next, WF_vars(Next), with ENABLED <<Next>>_vars written
\* as the state predicate it equals here: some statement can run, and changes
\* pc, cur or k, exactly when export() has not returned.
Returned == pc = "done"
FairSpec == Spec /\ ([]<>Returned \/ []<><<Next>>_vars)

(* ------------------------ reading a concept forest ---------------------- *)

\* The forest is read here by position only: a node is named by its index
\* path (1-based) from the roots.
Kids(owner) == IF Has(owner, "concept") THEN owner.concept ELSE <<>>

RECURSIVE PathsIn(_)
PathsIn(list) ==
  UNION {{<<j>>} \cup {<<j>> \o p : p \in PathsIn(Kids(list[j]))} : j \in 1..Len(list)}

RECURSIVE NodeAt(_, _)
NodeAt(list, p) == IF Len(p) = 1 THEN list[p[1]] ELSE NodeAt(Kids(list[p[1]]), Tail(p))

ChildrenAt(list, p) == IF p = <<>> THEN list ELSE Kids(NodeAt(list, p))

\* Every node with its position and code.
Labelled(list) == {<<p, NodeAt(list, p).code>> : p \in PathsIn(list)}

\* list[j] is the first node of list with that code.
FirstWithCode(list, code, j) ==
  /\ j \in 1..Len(list)
  /\ list[j].code = code
  /\ \A h \in 1..(j - 1) : list[h].code # code

\* The positions reached by walking the codes from the roots, each code
\* matched by the first node carrying it at its level (none: some code is
\* absent at its level).
Walks(list, codes) ==
  {p \in PathsIn(list) \cup {<<>>} :
     /\ Len(p) = Len(codes)
     /\ \A j \in 1..Len(p) :
          FirstWithCode(ChildrenAt(list, SubSeq(p, 1, j - 1)), codes[j], p[j])}

Count(seq, P(_)) == Cardinality({j \in 1..Len(seq) : P(seq[j])})

(* ------------------------------ claims --------------------------------- *)

\* C1: a concept rule with an ancestor code that is absent at its level when
\* the rule is applied adds no node and logs exactly one error for the rule;
\* a rule whose ancestors are all present adds a node and logs nothing; the
\* loop goes on to the next concept rule either way.
C1_Step ==
  pc = "conceptRule" =>
    LET src == conceptRules[k]
        rule == fshDefinition.rules[src]
        before == Kids(codeSystem)
        after == Kids(codeSystem')
    IN  /\ Walks(before, rule.hierarchy) = {} =>
             /\ Labelled(after) = Labelled(before)
             /\ logger' = Append(logger, Diag("error", "MissingAncestor", cur, src))
        /\ Walks(before, rule.hierarchy) # {} =>
             /\ Cardinality(Labelled(after)) = Cardinality(Labelled(before)) + 1
             /\ logger' = logger
        /\ k < Len(conceptRules) => pc' = "conceptRule" /\ k' = k + 1
C1_MissingAncestorDropped == [][C1_Step]_vars

\* A first rule was dropped and two later rules were inserted.
C1_Witness ==
  /\ pc = "push"
  /\ \E j \in 1..Len(logger) : logger[j].what = "MissingAncestor" /\ logger[j].rule = 1
  /\ Cardinality(Labelled(Kids(codeSystem))) = 2

\* C2: a concept rule whose ancestors are all present adds exactly one node,
\* as the last child of the node its ancestor codes walk to (the last root
\* when it has none), at depth = number of ancestors; every other node keeps
\* its position.
C2_Step ==
  pc = "conceptRule" =>
    LET rule == fshDefinition.rules[conceptRules[k]]
        before == Kids(codeSystem)
        after == Kids(codeSystem')
    IN  \A p \in Walks(before, rule.hierarchy) :
          LET at == Append(p, Len(ChildrenAt(before, p)) + 1)
          IN  /\ Labelled(after) = Labelled(before) \cup {<<at, rule.code>>}
              /\ Len(ChildrenAt(after, p)) = Len(ChildrenAt(before, p)) + 1
              /\ Len(at) = Len(rule.hierarchy) + 1
              /\ ~Has(NodeAt(after, at), "concept")
              /\ Has(rule, "display") <=> Has(NodeAt(after, at), "display")
              /\ Has(rule, "display") => NodeAt(after, at).display = rule.display
C2_AppendedAsLastChild == [][C2_Step]_vars

\* Three valid rules built a forest two levels deep, a second child appended
\* after the first.
C2_Witness ==
  /\ pc = "push"
  /\ logger = <<>>
  /\ Labelled(Kids(codeSystem)) = {<<<<1>>, "a">>, <<<<1, 1>>, "b">>, <<<<1, 2>>, "a">>}

\* The caret rules of a rule list that assign a number to ^count, and the
\* count the last of them leaves.
CountRules(rules) ==
  {j \in 1..Len(rules) :
     /\ rules[j].kind = "caret"
     /\ rules[j].caretPath = Field("count")
     /\ rules[j].value.t = "int"}
ExplicitCount(rules) ==
  rules[CHOOSE j \in CountRules(rules) : \A h \in CountRules(rules) : h <= j].value.n
Complete(doc) == Has(doc, "content") /\ doc.content = "complete"
Warnings(ent) == Count(logger, LAMBDA d : d.what = "CountMismatch" /\ d.ent = ent)

\* C3: an exported document with content 'complete', no count set by a rule
\* and at least one concept has count = the number of concept nodes of the
\* whole forest, nested ones included.
C3_ComputedCount ==
  \A j \in 1..Len(pkg) :
    (/\ origin[j] > 0
     /\ Complete(pkg[j])
     /\ CountRules(tank[origin[j]].rules) = {}
     /\ Kids(pkg[j]) # <<>>)
    => /\ Has(pkg[j], "count")
       /\ pkg[j].count = Cardinality(PathsIn(Kids(pkg[j])))

\* Three concepts, one of them nested, counted as 3.
C3_Witness ==
  \E j \in 1..Len(pkg) :
    /\ origin[j] > 0
    /\ CountRules(tank[origin[j]].rules) = {}
    /\ <<1, 1>> \in PathsIn(Kids(pkg[j]))
    /\ Has(pkg[j], "count") /\ pkg[j].count = 3

\* C4: a count set by a rule is the count of the exported document; when the
\* content is 'complete' and that count differs from the number of concepts,
\* exactly one count-mismatch warning is logged for the entity.
C4_ExplicitCountKept ==
  \A j \in 1..Len(pkg) :
    (origin[j] > 0 /\ CountRules(tank[origin[j]].rules) # {})
    => /\ Has(pkg[j], "count")
       /\ pkg[j].count = ExplicitCount(tank[origin[j]].rules)
       /\ (/\ Complete(pkg[j])
           /\ pkg[j].count # Cardinality(PathsIn(Kids(pkg[j]))))
          => Warnings(origin[j]) = 1

\* An explicit count of 2 over 3 concepts stays 2, with one warning.
C4_Witness ==
  \E j \in 1..Len(pkg) :
    /\ origin[j] > 0
    /\ Complete(pkg[j])
    /\ CountRules(tank[origin[j]].rules) # {}
    /\ Cardinality(PathsIn(Kids(pkg[j]))) = 3
    /\ pkg[j].count = 2
    /\ Warnings(origin[j]) = 1

\* C5: when two entities share a name and the earlier one produced a
\* document, exportCodeSystem of the later one returns without pushing.
C5_LaterSameNameSkipped ==
  \A i \in 1..Len(outcome) : \A j \in 1..Len(outcome) :
    (i < j /\ tank[i].name = tank[j].name /\ outcome[i] = "exported")
    => outcome[j] = "skipped"

DuplicateIds(ent) == Count(logger, LAMBDA d : d.what = "DuplicateId" /\ d.ent = ent)

\* C6: a duplicate-id error is logged for an entity exactly when a document
\* already in the package has the id of the new document (one error, none
\* otherwise), and both documents are in the package afterwards.
C6_DuplicateIdReported ==
  /\ \A j \in 1..Len(pkg) :
       origin[j] > 0 =>
         DuplicateIds(origin[j]) =
           IF \E h \in 1..(j - 1) : pkg[h].id = pkg[j].id THEN 1 ELSE 0
  /\ \A e \in 1..Len(outcome) : outcome[e] # "exported" => DuplicateIds(e) = 0
  /\ pc \in {"updateCount", "push"} =>
       DuplicateIds(cur) = IF \E h \in 1..Len(pkg) : pkg[h].id = codeSystem.id THEN 1 ELSE 0

\* Two entities with different names and the same id: both documents are in
\* the package and one duplicate-id error was logged, for the second.
C6_Witness ==
  /\ pc = "done"
  /\ origin = <<1, 2>>
  /\ tank[1].name # tank[2].name /\ tank[1].id = tank[2].id
  /\ pkg[1].name # pkg[2].name /\ pkg[1].id = pkg[2].id
  /\ DuplicateIds(1) = 0 /\ DuplicateIds(2) = 1

Rank(rule) == CASE rule.kind = "caret" -> 1 [] rule.kind = "concept" -> 2 [] OTHER -> 3
Building == {"caretRule", "setConcepts", "conceptRule", "codeCaretRule",
             "checkId", "updateCount", "push"}
OfKind(rules, kind) == {j \in 1..Len(rules) : rules[j].kind = kind}
Applied == {applied[p] : p \in 1..Len(applied)}

\* C7: within one exportCodeSystem call the rules are applied root caret
\* rules first, then concept rules, then code caret rules, each group in
\* source order, whatever their order in the source; each rule is applied
\* once, and each group is complete before the next one starts.
C7_RuleOrder ==
  pc \in Building =>
    LET rules == fshDefinition.rules
    IN  /\ \A p \in 1..Len(applied) : \A q \in 1..Len(applied) :
             p < q =>
               \/ Rank(rules[applied[p]]) < Rank(rules[applied[q]])
               \/ /\ Rank(rules[applied[p]]) = Rank(rules[applied[q]])
                  /\ applied[p] < applied[q]
        /\ pc \in {"setConcepts", "conceptRule"} => OfKind(rules, "caret") \subseteq Applied
        /\ pc = "codeCaretRule" =>
             OfKind(rules, "caret") \cup OfKind(rules, "concept") \subseteq Applied
        /\ pc \in {"checkId", "updateCount", "push"} => Applied = 1..Len(rules)

\* A code caret rule written before its concept rule and before a root caret
\* rule was applied last, and found the concept.
C7_Witness ==
  /\ pc = "push"
  /\ applied = <<3, 2, 1>>
  /\ logger = <<>>
  /\ Has(codeSystem.concept[1], "display")

Logged(ent) == Count(logger, LAMBDA d : d.ent = ent)

\* C8: when the schema lookup fails, the entity pushes no document, export()
\* logs one error for it and goes on to every remaining entity; the package
\* is as it was.
C8_SchemaFailure ==
  /\ \A e \in 1..Len(outcome) :
       /\ outcome[e] = "failed" =>
            /\ ~\E j \in 1..Len(origin) : origin[j] = e
            /\ Logged(e) = 1
            /\ \E j \in 1..Len(logger) : logger[j].ent = e /\ logger[j].level = "error"
       /\ ~fisher => outcome[e] \in {"failed", "skipped"}
       /\ outcome[e] = "skipped" => \E j \in 1..Len(pkg) : pkg[j].name = tank[e].name
  /\ ~fisher => pkg \in InitialPackages
  /\ pc = "done" => Len(outcome) = Len(tank)

\* Two entities failed one after the other; the document that was in the
\* package is still its only one.
C8_Witness ==
  /\ pc = "done"
  /\ outcome = <<"failed", "failed">>
  /\ Logged(1) = 1 /\ Logged(2) = 1
  /\ Len(pkg) = 1

\* The step logs exactly one error, for rule src of the current entity.
OneError(src) ==
  /\ Len(logger') = Len(logger) + 1
  /\ SubSeq(logger', 1, Len(logger)) = logger
  /\ logger'[Len(logger')].level = "error"
  /\ logger'[Len(logger')].ent = cur
  /\ logger'[Len(logger')].rule = src

\* C9: a caret rule or code caret rule whose path and value fail validation
\* leaves the document exactly as it was and logs one error for the rule.
C9_Step ==
  /\ pc = "caretRule" =>
       LET src == caretRules[k]
           rule == fshDefinition.rules[src]
       IN  ~validateValueAtPath(rule.caretPath, rule.value).ok =>
             codeSystem' = codeSystem /\ OneError(src)
  /\ pc = "codeCaretRule" =>
       LET src == codeCaretRules[k]
           rule == fshDefinition.rules[src]
           conceptPath == findConceptPath(codeSystem, rule.codePath)
       IN  (/\ conceptPath.ok
            /\ ~validateValueAtPath(conceptPath.path \o rule.caretPath, rule.value).ok) =>
             codeSystem' = codeSystem /\ OneError(src)
C9_FailedValidationNoMutation == [][C9_Step]_vars

\* A caret rule and a code caret rule on an existing concept both failed for
\* the type of their value.
C9_Witness ==
  /\ pc = "push"
  /\ \E i \in 1..Len(logger) : \E j \in 1..Len(logger) :
       /\ logger[i].what = "MismatchedType"
       /\ fshDefinition.rules[logger[i].rule].kind = "caret"
       /\ logger[j].what = "MismatchedType"
       /\ fshDefinition.rules[logger[j].rule].kind = "codecaret"

\* C10: findConceptPath turns a code path into concept[i1]...concept[in], ik
\* the 0-based position of the first node with code ck among the children of
\* the node chosen so far; it throws CannotResolvePathError when a code is
\* absent at its level, and the code caret rule is then skipped: the document
\* is unchanged and one error is logged.
C10_Step ==
  /\ pc \in {"codeCaretRule", "checkId"} =>
       \A codePath \in CodePaths :
         LET r == findConceptPath(codeSystem, codePath)
             w == Walks(Kids(codeSystem), codePath)
         IN  /\ r.ok <=> w # {}
             /\ r.ok => \A p \in w :
                  r.path = [j \in 1..Len(codePath) |-> Seg("concept", Lit(p[j] - 1))]
             /\ ~r.ok => r.error = "CannotResolvePath"
  /\ pc = "codeCaretRule" =>
       LET src == codeCaretRules[k]
       IN  Walks(Kids(codeSystem), fshDefinition.rules[src].codePath) = {} =>
             /\ codeSystem' = codeSystem
             /\ logger' = Append(logger, Diag("error", "CannotResolvePath", cur, src))
C10_ConceptPath == [][C10_Step]_vars

\* One code caret rule found its concept and set its display; another named
\* a code that is absent from the forest and was skipped.
C10_Witness ==
  /\ pc = "push"
  /\ Len(Kids(codeSystem)) = 1
  /\ Has(codeSystem.concept[1], "display")
  /\ \E j \in 1..Len(logger) :
       /\ logger[j].what = "CannotResolvePath"
       /\ fshDefinition.rules[logger[j].rule].kind = "codecaret"
       /\ fshDefinition.rules[logger[j].rule].codePath = <<"b">>

\* C11: over a whole export() run the package never holds two code-system
\* documents with the same name, whatever the entities and their rules
\* (root caret rules that assign the name included).
C11_UniqueNames ==
  \A i \in 1..Len(pkg) : \A j \in 1..Len(pkg) :
    i # j => pkg[i].name # pkg[j].name

\* The list as it is after a step keeps the list before it as its prefix.
Extends(after, before) ==
  /\ Len(after) >= Len(before)
  /\ SubSeq(after, 1, Len(before)) = before

\* C12: the package's list is append-only: a step leaves it unchanged or
\* appends one document at its end, only the step that ends an
\* exportCodeSystem call appends, a call appends at most one document, and
\* the documents are in the order of the entities that produced them.
C12_Step ==
  /\ Extends(pkg', pkg)
  /\ Len(pkg') <= Len(pkg) + 1
  /\ Len(pkg') = Len(pkg) + 1 =>
       /\ cur' = cur + 1
       /\ pkg'[Len(pkg')] = codeSystem
       /\ origin'[Len(pkg')] = cur
  /\ cur' = cur => pkg' = pkg
  /\ \A i \in 1..Len(origin') : \A j \in 1..Len(origin') :
       i < j => \/ origin'[i] = 0
                \/ origin'[i] < origin'[j]
C12_AppendOnly == [][C12_Step]_vars

\* Two entities were exported after the document the package started with:
\* the three documents are in that order.
C12_Witness ==
  /\ pc = "done"
  /\ origin = <<0, 1, 2>>
  /\ pkg[1] = Exported("N2", "y")
  /\ pkg[2].id = tank[1].id /\ pkg[3].id = tank[2].id

\* C13: when the document's content is not 'complete' at updateCount, the
\* step changes nothing in the document and logs nothing: the count is what
\* the rules set (absent if none set it), whatever the number of concepts.
C13_Step ==
  (pc = "updateCount" /\ ~Complete(codeSystem)) =>
    LET rules == fshDefinition.rules
    IN  /\ codeSystem' = codeSystem
        /\ logger' = logger
        /\ CountRules(rules) = {} => ~Has(codeSystem', "count")
        /\ CountRules(rules) # {} =>
             Has(codeSystem', "count") /\ codeSystem'.count = ExplicitCount(rules)
C13_IncompleteContentUntouched == [][C13_Step]_vars

\* A document of content 'example' with the explicit count 1 over three
\* concepts was exported with that count and without a warning.
C13_Witness ==
  \E j \in 1..Len(pkg) :
    /\ origin[j] > 0
    /\ pkg[j].content = "example"
    /\ Cardinality(PathsIn(Kids(pkg[j]))) = 3
    /\ Has(pkg[j], "count") /\ pkg[j].count = 1
    /\ Warnings(origin[j]) = 0

\* C14: with content 'complete', a count-mismatch warning is logged only if
\* a rule set a count and it differs from the number of concepts of the
\* forest: no warning when they agree, 0 with no concept included.
C14_WarningOnlyOnDisagreement ==
  \A j \in 1..Len(pkg) :
    (origin[j] > 0 /\ Complete(pkg[j]) /\ Warnings(origin[j]) > 0)
    => /\ CountRules(tank[origin[j]].rules) # {}
       /\ ExplicitCount(tank[origin[j]].rules) # Cardinality(PathsIn(Kids(pkg[j])))

\* The phase an exportCodeSystem call is in at each statement.
PhaseRank(at) ==
  CASE at = "export" -> 0                                  \* Init
    [] at \in {"fish", "setCaretRules", "caretRule"} -> 1   \* MetadataSet
    [] at \in {"setConcepts", "conceptRule"} -> 2           \* CaretRulesApplied
    [] at = "codeCaretRule" -> 3                            \* ConceptsBuilt
    [] at \in {"checkId", "updateCount"} -> 4               \* ConceptCaretRulesApplied
    [] at = "push" -> 5                                     \* CountReconciled
    [] OTHER -> 6
Dropped(ent) == Count(logger, LAMBDA d : d.what = "MissingAncestor" /\ d.ent = ent)

\* C15: an exported entity goes through the phases in order, none skipped:
\* metadata is set when the call begins, the caret rules are all applied
\* before the concepts are built, the concept rules before the code caret
\* rules, all rules before the id check and the count reconciliation, and
\* the push comes right after the reconciliation; the computed count is the
\* number of concepts of all the entity's concept rules that were not dropped.
C15_Step ==
  LET rules == fshDefinition.rules
      done == {applied'[p] : p \in 1..Len(applied')}
  IN  /\ cur' = cur => PhaseRank(pc') >= PhaseRank(pc)
      /\ pc' = "fish" =>
           /\ pc = "export"
           /\ {"name", "id", "version", "url"} \subseteq DOMAIN codeSystem'
           /\ applied' = <<>>
      /\ pc' = "setCaretRules" => pc = "fish"
      /\ pc' = "caretRule" => pc \in {"setCaretRules", "caretRule"}
      /\ pc' = "setConcepts" =>
           /\ pc \in {"setCaretRules", "caretRule"}
           /\ done = OfKind(rules, "caret")
      /\ pc' = "conceptRule" => pc \in {"setConcepts", "conceptRule"}
      /\ pc' = "codeCaretRule" =>
           /\ pc \in {"setConcepts", "conceptRule", "codeCaretRule"}
           /\ OfKind(rules, "caret") \cup OfKind(rules, "concept") \subseteq done
      /\ pc' = "checkId" =>
           /\ pc \in {"setConcepts", "conceptRule", "codeCaretRule"}
           /\ done = 1..Len(rules)
      /\ pc' = "updateCount" => pc = "checkId"
      /\ pc' = "push" =>
           /\ pc = "updateCount"
           /\ done = 1..Len(rules)
           /\ Kids(codeSystem') = Kids(codeSystem)
           /\ Cardinality(PathsIn(Kids(codeSystem'))) =
                Cardinality(OfKind(rules, "concept")) - Dropped(cur)
           /\ (Complete(codeSystem) /\ ~Has(codeSystem, "count") /\ Kids(codeSystem) # <<>>) =>
                codeSystem'.count = Cardinality(OfKind(rules, "concept")) - Dropped(cur)
      /\ pkg' # pkg =>
           /\ pc = "push"
           /\ pkg' = Append(pkg, codeSystem)
           /\ outcome' = Append(outcome, "exported")
      /\ (outcome' # outcome /\ outcome'[Len(outcome')] = "exported") => pc = "push"
C15_PhaseOrder == [][C15_Step]_vars

\* An entity with a caret rule, a concept rule and a code caret rule went
\* through every phase and was exported with the computed count 1.
C15_Witness ==
  /\ pc = "export"
  /\ outcome = <<"exported">>
  /\ Cardinality(OfKind(tank[1].rules, "caret")) = 1
  /\ Cardinality(OfKind(tank[1].rules, "concept")) = 1
  /\ Cardinality(OfKind(tank[1].rules, "codecaret")) = 1
  /\ logger = <<>>
  /\ pkg[1].count = 1

\* No soft index marker is left in the path.
Resolved(path) == \A j \in 1..Len(path) : path[j].idx.tag \in {"none", "lit"}

\* C16: every rule handed to validateValueAtPath, root caret rule or code
\* caret rule (one whose concept findConceptPath found), has been through
\* soft-index resolution: when its turn in the loop comes, its path holds no
\* soft index marker.
C16_ResolvedBeforeValidation ==
  /\ pc = "caretRule" => Resolved(fshDefinition.rules[caretRules[k]].caretPath)
  /\ pc = "codeCaretRule" =>
       LET rule == fshDefinition.rules[codeCaretRules[k]]
       IN  findConceptPath(codeSystem, rule.codePath).ok => Resolved(rule.caretPath)

\* The caret and code caret rules of a rule list whose path resolution or
\* validation raises, the code caret rules against the forest of doc.
FailingRules(rules, doc) ==
  {src \in OfKind(rules, "caret") :
     ~validateValueAtPath(rules[src].caretPath, rules[src].value).ok}
  \cup
  {src \in OfKind(rules, "codecaret") :
     \/ Walks(Kids(doc), rules[src].codePath) = {}
     \/ \E p \in Walks(Kids(doc), rules[src].codePath) :
          ~validateValueAtPath(
             [j \in 1..Len(p) |-> Seg("concept", Lit(p[j] - 1))] \o rules[src].caretPath,
             rules[src].value).ok}
RuleErrors(ent, src) ==
  Count(logger, LAMBDA d : d.level = "error" /\ d.ent = ent /\ d.rule = src)
ErrorsAtRules(ent, kinds) ==
  Count(logger, LAMBDA d : /\ d.level = "error" /\ d.ent = ent /\ d.rule > 0
                           /\ tank[ent].rules[d.rule].kind \in kinds)

\* C17: a failing caret rule or code caret rule never aborts its entity:
\* every rule has been attempted when the loops are over, each failing rule
\* logged one error and no other rule of these groups logged any, and once
\* the schema is found every entity's call ends with its document pushed,
\* unless its name was already in the package.
C17_FailuresDoNotAbort ==
  /\ pc \in {"checkId", "updateCount", "push"} =>
       LET rules == fshDefinition.rules
           failing == FailingRules(rules, codeSystem)
       IN  /\ Applied = 1..Len(rules)
           /\ ErrorsAtRules(cur, {"caret", "codecaret"}) = Cardinality(failing)
           /\ \A src \in failing : RuleErrors(cur, src) = 1
  /\ \A j \in 1..Len(pkg) :
       origin[j] > 0 =>
         LET failing == FailingRules(tank[origin[j]].rules, pkg[j])
         IN  /\ ErrorsAtRules(origin[j], {"caret", "codecaret"}) = Cardinality(failing)
             /\ \A src \in failing : RuleErrors(origin[j], src) = 1
  /\ fisher =>
       \A e \in 1..Len(outcome) :
         \/ outcome[e] = "exported" /\ \E j \in 1..Len(pkg) : origin[j] = e
         \/ outcome[e] = "skipped" /\ \E j \in 1..Len(pkg) : pkg[j].name = tank[e].name

\* A caret rule failed, the caret rule after it was applied, a code caret
\* rule failed after that, and the document was pushed: two errors.
C17_Witness ==
  /\ pc = "done"
  /\ outcome = <<"exported">>
  /\ ErrorsAtRules(1, {"caret", "codecaret"}) = 2
  /\ RuleErrors(1, 1) = 1 /\ RuleErrors(1, 3) = 1
  /\ tank[1].rules[1].kind = "caret" /\ tank[1].rules[2].kind = "caret"
  /\ tank[1].rules[3].kind = "codecaret"
  /\ Has(pkg[1], "identifier")

\* The caret rules of a rule list that assign a string to ^version, and the
\* version the last of them leaves.
VersionRules(rules) ==
  {j \in 1..Len(rules) :
     /\ rules[j].kind = "caret"
     /\ rules[j].caretPath = Field("version")
     /\ rules[j].value.t = "string"}
ExplicitVersion(rules) ==
  rules[CHOOSE j \in VersionRules(rules) : \A h \in VersionRules(rules) : h <= j].value.s
CanonicalUrl(id) == <<ConfigCanonical, "CodeSystem", id>>

\* C18: metadata is set before any rule is applied; in every exported
\* document the version is the configured version unless a root caret rule
\* assigned version (the rule's value then wins), and the url is
\* '<configured canonical>/CodeSystem/<id>' for the document's id, whatever
\* the rules (root caret rules that assign the id included).
C18_VersionAndUrl ==
  /\ pc = "fish" =>
       /\ applied = <<>>
       /\ codeSystem.version = ConfigVersion
       /\ codeSystem.url = CanonicalUrl(codeSystem.id)
  /\ \A j \in 1..Len(pkg) :
       origin[j] > 0 =>
         LET rules == tank[origin[j]].rules
         IN  /\ pkg[j].version = IF VersionRules(rules) = {} THEN ConfigVersion
                                 ELSE ExplicitVersion(rules)
             /\ pkg[j].url = CanonicalUrl(pkg[j].id)

\* C19: a concept rule that is dropped for a missing ancestor leaves the
\* document exactly as it was before the rule: no node is added and no
\* ancestor found on the way gains a child list, empty or not.
C19_Step ==
  pc = "conceptRule" =>
    LET rule == fshDefinition.rules[conceptRules[k]]
    IN  Walks(Kids(codeSystem), rule.hierarchy) = {} => codeSystem' = codeSystem
C19_DroppedRuleLeavesForest == [][C19_Step]_vars

\* The 0-based indices select, level by level, a node carrying the code.
SelectsCodes(list, indices, codes) ==
  /\ Len(indices) = Len(codes)
  /\ \A j \in 1..Len(codes) :
       LET level == ChildrenAt(list, [i \in 1..(j - 1) |-> indices[i] + 1])
       IN  /\ indices[j] + 1 \in 1..Len(level)
           /\ level[indices[j] + 1].code = codes[j]
NoSiblingsShareCode(list) ==
  \A p \in PathsIn(list) \cup {<<>>} :
    LET level == ChildrenAt(list, p)
    IN  \A i \in 1..Len(level) : \A j \in 1..Len(level) :
          i # j => level[i].code # level[j].code
Indices(conceptPath) == [j \in 1..Len(conceptPath) |-> conceptPath[j].idx.n]
InsertedRules ==
  {src \in Applied :
     /\ fshDefinition.rules[src].kind = "concept"
     /\ RuleErrors(cur, src) = 0}

\* C20: for every concept rule setConcepts inserted, findConceptPath on its
\* ancestor codes followed by its own code does not raise, right after the
\* insertion and for the rest of the call, and its indices select at every
\* level a node carrying the corresponding code; when no two siblings share
\* a code the selected node is the inserted node itself.
C20_Step ==
  /\ pc = "conceptRule" =>
       LET rule == fshDefinition.rules[conceptRules[k]]
           before == Kids(codeSystem)
           after == Kids(codeSystem')
           codes == Append(rule.hierarchy, rule.code)
           r == findConceptPath(codeSystem', codes)
       IN  \A p \in Walks(before, rule.hierarchy) :
             LET at == Append(p, Len(ChildrenAt(before, p)) + 1)
             IN  /\ r.ok
                 /\ SelectsCodes(after, Indices(r.path), codes)
                 /\ NoSiblingsShareCode(after) =>
                      Indices(r.path) = [j \in 1..Len(at) |-> at[j] - 1]
  /\ pc \in {"conceptRule", "codeCaretRule", "checkId", "updateCount", "push"} =>
       \A src \in InsertedRules :
         LET rule == fshDefinition.rules[src]
             codes == Append(rule.hierarchy, rule.code)
             r == findConceptPath(codeSystem, codes)
         IN  r.ok /\ SelectsCodes(Kids(codeSystem), Indices(r.path), codes)
C20_InsertedConceptsAreFound == [][C20_Step]_vars

\* Three rules were inserted: a root, a child of it, and a second root with
\* the code of the first, whose path selects the first root.
C20_Witness ==
  /\ pc = "push"
  /\ logger = <<>>
  /\ Labelled(Kids(codeSystem)) = {<<<<1>>, "a">>, <<<<1, 1>>, "b">>, <<<<2>>, "a">>}
  /\ InsertedRules = {1, 2, 3}
  /\ findConceptPath(codeSystem, <<"a">>).path = <<Seg("concept", Lit(0))>>

\* The documents of the package that entity ent pushed, the entities with a
\* given outcome, and the documents the package held before export() ran.
PushedBy(ent) == {j \in 1..Len(pkg) : origin[j] = ent}
WithOutcome(o) == {e \in 1..Len(outcome) : outcome[e] = o}
HeldBefore == {j \in 1..Len(pkg) : origin[j] = 0}
Thrown(ent) == Count(logger, LAMBDA d : d.what = "Thrown" /\ d.ent = ent)

\* When export() has returned every entity has one outcome: exported (it
\* pushed exactly one document), skipped (a document of its name was in the
\* package before its call, nothing pushed) or failed (export() logged the
\* error that escaped its call, nothing pushed).
OutcomesAtReturn ==
  /\ Len(outcome) = Len(tank)
  /\ \A e \in 1..Len(tank) :
       \/ /\ outcome[e] = "exported"
          /\ Cardinality(PushedBy(e)) = 1
          /\ Thrown(e) = 0
       \/ /\ outcome[e] = "skipped"
          /\ \E j \in 1..Len(pkg) : origin[j] < e /\ pkg[j].name = tank[e].name
          /\ PushedBy(e) = {}
          /\ Thrown(e) = 0
       \/ /\ outcome[e] = "failed"
          /\ Thrown(e) = 1
          /\ PushedBy(e) = {}

\* C21 as stated: when export() has returned every entity has exactly one of
\* the three outcomes and the package size equals the number of exported
\* entities.
C21_SizeIsExported ==
  pc = "done" =>
    /\ OutcomesAtReturn
    /\ Len(pkg) = Cardinality(WithOutcome("exported"))

\* C21, amended: export() terminates for every list of entities; when it has
\* returned every entity has exactly one of the three outcomes, and the
\* package holds the documents it held before the run followed by one
\* document per exported entity.
C21_Terminates ==
  /\ <>(pc = "done")
  /\ [](pc = "done" =>
         /\ OutcomesAtReturn
         /\ Len(pkg) = Cardinality(HeldBefore) + Cardinality(WithOutcome("exported")))

\* export() returned over a package that held a document: one entity was
\* exported, one skipped, and the package holds two documents.
C21_Witness ==
  /\ pc = "done"
  /\ outcome = <<"exported", "skipped">>
  /\ origin = <<0, 1>>
  /\ Len(pkg) = 2

====
